---- MODULE Spec2Model ----
(***************************************************************************)
(* NEST container format: the encoder (WriteFile / NestedImageFile.Write), *)
(* the decoder (ReadFile / NestedImageFile.Read) and the tiling transform  *)
(* (extractTile / fillTile) of src/main.go and src/README.md.              *)
(*                                                                         *)
(* Go slices are 0-based; the sequences below are 1-based, so image[j][i]  *)
(* of the source is image[j+1][i+1] here.  A nil slice is <<>>.            *)
(* The byte sink and source never fail on their own: the only I/O error    *)
(* modelled is the end of the stream.                                      *)
(***************************************************************************)
EXTENDS Integers, Sequences, FiniteSets, TLC

VARIABLES
    api,          \* encoder entry point: "WriteFile0", "WriteFile" or "Write"
    header,       \* FileHeader the encoder writes (nif.Header for "Write")
    mainImage,    \* [][]PixeLink handed to the encoder
    nestedImages, \* []NestedImage handed to the encoder
    file,         \* bytes of the sink
    wpc,          \* encoder position
    wx, wy,       \* encoder tile loop variables x, y
    wi,           \* encoder nested-image loop index
    werr,         \* kind of error the encoder returned
    fuzz,         \* whether the decoder is also given cut or altered streams
    rapi,         \* decoder entry point: "ReadFile" or "Read"
    source,       \* bytes of the stream handed to the decoder
    rpos,         \* number of bytes the decoder has consumed
    rpc,          \* decoder position
    rheader,      \* header as decoded
    rgrid,        \* mainImage being rebuilt by the decoder
    rnested,      \* nestedImages being rebuilt by the decoder
    rx, ry,       \* decoder tile loop variables x, y
    ri,           \* decoder nested-image loop index
    rerr,         \* kind of error the decoder returned
    tpc,          \* position of the tiling-transform exercise
    targ,         \* its arguments [x, y, size]
    tile,         \* result of extractTile
    tout          \* result of fillTile on a zeroed grid

vars == <<api, header, mainImage, nestedImages, file, wpc, wx, wy, wi, werr,
          fuzz, rapi, source, rpos, rpc, rheader, rgrid, rnested, rx, ry, ri,
          rerr, tpc, targ, tile, tout>>

wvars == <<api, header, mainImage, nestedImages, file, wpc, wx, wy, wi, werr>>
rvars == <<fuzz, rapi, source, rpos, rpc, rheader, rgrid, rnested, rx, ry, ri, rerr>>
tvars == <<tpc, targ, tile, tout>>

(* ---------------------------------------------------------------- bounds *)
MaxW == 3
MaxH == 2
MaxTile == 2
MaxNested == 2

(* ----------------------------------------------------- program constants *)
MAGIC == <<78, 69, 83, 84>>          \* "NEST"
DefaultTileSize == 256
FormatVersion == 1
HeaderSize == 20
PixelSize == 7
Channels == 3

Min(a, b) == IF a < b THEN a ELSE b

(* ------------------------------------------------- encoding/binary, LE   *)
LE16(v) == <<v % 256, (v \div 256) % 256>>
LE32(v) == <<v % 256, (v \div 256) % 256, (v \div 65536) % 256, (v \div 16777216) % 256>>
U16At(b, o) == b[o + 1] + 256 * b[o + 2]
U32At(b, o) == b[o + 1] + 256 * b[o + 2] + 65536 * b[o + 3] + 16777216 * b[o + 4]

ZeroHeader ==
    [Magic |-> <<0, 0, 0, 0>>, Version |-> 0, Width |-> 0, Height |-> 0,
     TileSize |-> 0, NestedCount |-> 0]

ZeroPixel == [R |-> 0, G |-> 0, B |-> 0, NestedIdx |-> 0]

ZeroNested == [Width |-> 0, Height |-> 0, Data |-> <<>>]

\* binary.Write of a FileHeader: the fields in order, no padding
EncodeHeader(h) ==
    h.Magic \o LE16(h.Version) \o LE32(h.Width) \o LE32(h.Height)
            \o LE16(h.TileSize) \o LE32(h.NestedCount)

\* binary.Read of a FileHeader from the 20 bytes at offset o
DecodeHeader(b, o) ==
    [Magic |-> SubSeq(b, o + 1, o + 4), Version |-> U16At(b, o + 4),
     Width |-> U32At(b, o + 6), Height |-> U32At(b, o + 10),
     TileSize |-> U16At(b, o + 14), NestedCount |-> U32At(b, o + 16)]

EncodePixel(p) == <<p.R, p.G, p.B>> \o LE32(p.NestedIdx)

DecodePixel(b, o) ==
    [R |-> b[o + 1], G |-> b[o + 2], B |-> b[o + 3], NestedIdx |-> U32At(b, o + 3)]

\* binary.Write of a []PixeLink: 7 bytes per element
EncodePixels(ps) ==
    [k \in 1..(PixelSize * Len(ps)) |->
        EncodePixel(ps[((k - 1) \div PixelSize) + 1])[((k - 1) % PixelSize) + 1]]

\* binary.Read of a []PixeLink of n elements from offset o
DecodePixels(b, o, n) == [k \in 1..n |-> DecodePixel(b, o + PixelSize * (k - 1))]

\* binary.Write of width, height, then file.Write of the payload
EncodeNested(img) == LE16(img.Width) \o LE16(img.Height) \o img.Data

(* ------------------------------------------------------ tiling transform *)
ImageHeight(image) == Len(image)
ImageWidth(image) == IF Len(image) = 0 THEN 0 ELSE Len(image[1])

\* inner loop of extractTile over one row: i from x while i < x+size and i < len(row)
ExtractRow(row, x, size) == SubSeq(row, x + 1, Min(x + size, Len(row)))

RECURSIVE ExtractRows(_, _, _, _, _)
ExtractRows(image, x, j, jEnd, size) ==
    IF j >= jEnd THEN <<>>
    ELSE ExtractRow(image[j + 1], x, size) \o ExtractRows(image, x, j + 1, jEnd, size)

\* a mis-tiling a plausible slip would give: the tile read column by column
extractTileColumnMajor(image, x, y, size) ==
    LET rows == Min(y + size, Len(image)) - y
        cols == IF rows <= 0 THEN 0 ELSE Min(x + size, Len(image[y + 1])) - x
    IN  IF rows <= 0 \/ cols <= 0 THEN <<>>
        ELSE [k \in 1..(rows * cols) |->
                image[y + ((k - 1) % rows) + 1][x + ((k - 1) \div rows) + 1]]

extractTile(image, x, y, size) ==
    ExtractRows(image, x, y, Min(y + size, Len(image)), size)

\* the cells <<j, i>> fillTile assigns
FillCells(image, x, y, tileSize) ==
    {c \in (0..(tileSize - 1)) \X (0..(tileSize - 1)) :
        /\ y + c[1] < Len(image)
        /\ x + c[2] < Len(image[y + c[1] + 1])}

\* tile[j*tileSize+i] with an index past the end of tile: Go panics
fillTilePanics(image, t, x, y, tileSize) ==
    \E c \in FillCells(image, x, y, tileSize) : c[1] * tileSize + c[2] >= Len(t)

fillTile(image, t, x, y, tileSize) ==
    [r \in 1..Len(image) |->
        [c \in 1..Len(image[r]) |->
            IF <<r - 1 - y, c - 1 - x>> \in FillCells(image, x, y, tileSize)
            THEN t[(r - 1 - y) * tileSize + (c - 1 - x) + 1]
            ELSE image[r][c]]]

\* make([][]PixeLink, h) with every row make([]PixeLink, w)
ZeroGrid(w, h) == [r \in 1..h |-> [c \in 1..w |-> ZeroPixel]]

(* ------------------------------------------------------- sample inputs *)
Patterns == {0, 1}

\* pixel number k of a sample image: every pixel of an image is different;
\* pattern 0 links no nested image, pattern 1 mixes small and multi-byte links
SamplePixel(k, pat) ==
    [R |-> (37 * k + 11) % 256, G |-> (59 * k + 5) % 256, B |-> 255 - k,
     NestedIdx |-> IF pat = 0 THEN 0
                   ELSE IF k % 2 = 0 THEN k \div 2 ELSE 256 * k + 1]

SampleImage(w, h, pat) ==
    [r \in 1..h |-> [c \in 1..w |-> SamplePixel((r - 1) * w + (c - 1), pat)]]

\* rectangular images, the empty ones included (no rows; rows of no columns)
SampleImages ==
    {SampleImage(w, h, pat) : w \in 0..MaxW, h \in 0..MaxH, pat \in Patterns}

\* two well-formed nested images, and one whose Data is shorter than the
\* 256*256*3 bytes its dimensions declare (no encoder checks Data's length)
NestedChoices ==
    {[Width |-> 1, Height |-> 1, Data |-> <<200, 100, 50>>],
     [Width |-> 2, Height |-> 1, Data |-> <<1, 2, 3, 4, 5, 6>>],
     [Width |-> 256, Height |-> 256, Data |-> <<>>]}

NestedLists == UNION {[1..n -> NestedChoices] : n \in 0..MaxNested}

\* how far the header a caller fills in may be off from the data
Deltas == {<<0, 0, 0>>, <<1, 0, 0>>, <<0, 1, 0>>, <<0, 0, 1>>, <<1, 1, 0>>}

\* nif.Header as a caller of NestedImageFile.Write may have set it
CallerHeaders(image, nested, deltas) ==
    {[Magic |-> MAGIC, Version |-> FormatVersion,
      Width |-> ImageWidth(image) + d[1], Height |-> ImageHeight(image) + d[2],
      TileSize |-> ts, NestedCount |-> Len(nested) + d[3]] :
        ts \in 0..MaxTile, d \in deltas}

\* the header WriteFile builds from its arguments (the uint32 conversions
\* change no length the model reaches)
BuiltHeader(image, nested) ==
    [Magic |-> MAGIC, Version |-> FormatVersion,
     Width |-> Len(image[1]), Height |-> Len(image),
     TileSize |-> DefaultTileSize, NestedCount |-> Len(nested)]

(* ------------------------------------------------------------- encoder *)
InitWith(images, lists, apis, deltas, fz) ==
    /\ mainImage \in images
    /\ nestedImages \in lists
    /\ api \in apis
    /\ header \in IF api = "Write" THEN CallerHeaders(mainImage, nestedImages, deltas)
                  ELSE {ZeroHeader}
    /\ file = <<>>
    /\ wpc = "start" /\ wx = 0 /\ wy = 0 /\ wi = 0 /\ werr = "none"
    /\ fuzz = fz
    /\ rapi = "none" /\ source = <<>> /\ rpos = 0 /\ rpc = "idle"
    /\ rheader = ZeroHeader /\ rgrid = <<>> /\ rnested = <<>>
    /\ rx = 0 /\ ry = 0 /\ ri = 0 /\ rerr = "none"
    /\ tpc = "off" /\ targ = [x |-> 0, y |-> 0, size |-> 0]
    /\ tile = <<>> /\ tout = <<>>

Init ==
    InitWith(SampleImages, NestedLists, {"WriteFile0", "WriteFile", "Write"}, Deltas, FALSE)

\* WriteFile, src/main.go 135-157: the empty check, the header, its write
StartWriteFile ==
    IF Len(mainImage) = 0 \/ Len(mainImage[1]) = 0
    THEN /\ wpc' = "error" /\ werr' = "validation"
         /\ UNCHANGED <<header, file>>
    ELSE /\ header' = BuiltHeader(mainImage, nestedImages)
         /\ file' = file \o EncodeHeader(header')
         /\ wpc' = "tiles" /\ werr' = "none"

\* WriteFile, src/main.go 35-55: no empty check; mainImage[0] panics on no rows
StartWriteFile0 ==
    IF Len(mainImage) = 0
    THEN /\ wpc' = "panic" /\ werr' = "none"
         /\ UNCHANGED <<header, file>>
    ELSE /\ header' = BuiltHeader(mainImage, nestedImages)
         /\ file' = file \o EncodeHeader(header')
         /\ wpc' = "tiles" /\ werr' = "none"

\* NestedImageFile.Write, src/README.md 93-96: nif.Header written as it is
StartWrite ==
    /\ file' = file \o EncodeHeader(header)
    /\ wpc' = "tiles" /\ werr' = "none"
    /\ UNCHANGED header

WStart ==
    /\ wpc = "start"
    /\ CASE api = "WriteFile" -> StartWriteFile
         [] api = "WriteFile0" -> StartWriteFile0
         [] OTHER -> StartWrite
    /\ UNCHANGED <<api, mainImage, nestedImages, wx, wy, wi>>
    /\ UNCHANGED rvars /\ UNCHANGED tvars

\* body of the inner tile loop: extractTile, binary.Write(tile), x += TileSize
WTile ==
    /\ wpc = "tiles"
    /\ wy < Len(mainImage)
    /\ wx < Len(mainImage[1])
    /\ file' = file \o EncodePixels(extractTile(mainImage, wx, wy, header.TileSize))
    /\ wx' = wx + header.TileSize
    /\ UNCHANGED <<api, header, mainImage, nestedImages, wpc, wy, wi, werr>>
    /\ UNCHANGED rvars /\ UNCHANGED tvars

\* the inner loop ends: y += TileSize, x := 0
WRowEnd ==
    /\ wpc = "tiles"
    /\ wy < Len(mainImage)
    /\ wx >= Len(mainImage[1])
    /\ wy' = wy + header.TileSize
    /\ wx' = 0
    /\ UNCHANGED <<api, header, mainImage, nestedImages, file, wpc, wi, werr>>
    /\ UNCHANGED rvars /\ UNCHANGED tvars

\* the outer loop ends
WTilesEnd ==
    /\ wpc = "tiles"
    /\ wy >= Len(mainImage)
    /\ wpc' = "nested"
    /\ wi' = 0
    /\ UNCHANGED <<api, header, mainImage, nestedImages, file, wx, wy, werr>>
    /\ UNCHANGED rvars /\ UNCHANGED tvars

\* one nested image: width, height, Data
WNested ==
    /\ wpc = "nested"
    /\ wi < Len(nestedImages)
    /\ file' = file \o EncodeNested(nestedImages[wi + 1])
    /\ wi' = wi + 1
    /\ UNCHANGED <<api, header, mainImage, nestedImages, wpc, wx, wy, werr>>
    /\ UNCHANGED rvars /\ UNCHANGED tvars

\* return nil
WReturn ==
    /\ wpc = "nested"
    /\ wi >= Len(nestedImages)
    /\ wpc' = "done"
    /\ UNCHANGED <<api, header, mainImage, nestedImages, file, wx, wy, wi, werr>>
    /\ UNCHANGED rvars /\ UNCHANGED tvars

(* ------------------------------------------------------------- decoder *)
\* the stream the decoder is given: the first keep bytes of the file, the
\* last byte of its magic replaced by 'X' when flip
Stream(keep, flip) ==
    [k \in 1..keep |-> IF flip /\ k = 4 THEN 88 ELSE file[k]]

\* os.Open of what the encoder left, or of a cut or altered copy of it
Open ==
    /\ wpc \in {"done", "error"}
    /\ rpc = "idle"
    /\ \E r \in {"ReadFile", "Read"},
          keep \in (IF fuzz THEN 0..Len(file) ELSE {Len(file)}),
          flip \in (IF fuzz THEN BOOLEAN ELSE {FALSE}) :
            /\ rapi' = r
            /\ source' = Stream(keep, flip)
    /\ rpc' = "header"
    /\ UNCHANGED <<fuzz, rpos, rheader, rgrid, rnested, rx, ry, ri, rerr>>
    /\ UNCHANGED wvars /\ UNCHANGED tvars

\* io.ReadFull of n bytes succeeds iff n bytes are left
Left == Len(source) - rpos

\* the magic check as a slip would have it: only the first byte compared
MagicMatchesFirstByte(h) == h.Magic[1] = MAGIC[1]

\* string(header.Magic[:]) != MAGIC
MagicMatches(h) == h.Magic = MAGIC

\* binary.Read of the header, the magic check, the allocation of the grid
RHeader ==
    /\ rpc = "header"
    /\ IF Left < HeaderSize
       THEN /\ rpc' = "error" /\ rerr' = "io"
            /\ rpos' = Len(source)
            /\ UNCHANGED <<rheader, rgrid>>
       ELSE /\ rheader' = DecodeHeader(source, rpos)
            /\ rpos' = rpos + HeaderSize
            /\ IF ~MagicMatches(rheader')
               THEN /\ rpc' = "error" /\ rerr' = "format"
                    /\ UNCHANGED rgrid
               ELSE /\ rgrid' = ZeroGrid(rheader'.Width, rheader'.Height)
                    /\ rpc' = "tiles" /\ rerr' = "none"
    /\ UNCHANGED <<fuzz, rapi, source, rnested, rx, ry, ri>>
    /\ UNCHANGED wvars /\ UNCHANGED tvars

\* make([]PixeLink, tileSize*tileSize)
TileRecords(h, x, y) == h.TileSize * h.TileSize

\* body of the inner tile loop: binary.Read(&tile), fillTile, x += tileSize
RTile ==
    /\ rpc = "tiles"
    /\ ry < rheader.Height
    /\ rx < rheader.Width
    /\ LET n == TileRecords(rheader, rx, ry) IN
       IF Left < PixelSize * n
       THEN /\ rpc' = "error" /\ rerr' = "io"
            /\ rpos' = Len(source)
            /\ UNCHANGED <<rgrid, rx>>
       ELSE /\ rgrid' = fillTile(rgrid, DecodePixels(source, rpos, n), rx, ry,
                                 rheader.TileSize)
            /\ rpos' = rpos + PixelSize * n
            /\ rx' = rx + rheader.TileSize
            /\ UNCHANGED <<rpc, rerr>>
    /\ UNCHANGED <<fuzz, rapi, source, rheader, rnested, ry, ri>>
    /\ UNCHANGED wvars /\ UNCHANGED tvars

\* the inner loop ends: y += tileSize, x := 0
RRowEnd ==
    /\ rpc = "tiles"
    /\ ry < rheader.Height
    /\ rx >= rheader.Width
    /\ ry' = ry + rheader.TileSize
    /\ rx' = 0
    /\ UNCHANGED <<fuzz, rapi, source, rpos, rpc, rheader, rgrid, rnested, ri, rerr>>
    /\ UNCHANGED wvars /\ UNCHANGED tvars

\* the outer loop ends: make([]NestedImage, header.NestedCount)
RTilesEnd ==
    /\ rpc = "tiles"
    /\ ry >= rheader.Height
    /\ rnested' = [k \in 1..rheader.NestedCount |-> ZeroNested]
    /\ ri' = 0
    /\ rpc' = "nested"
    /\ UNCHANGED <<fuzz, rapi, source, rpos, rheader, rgrid, rx, ry, rerr>>
    /\ UNCHANGED wvars /\ UNCHANGED tvars

\* Width*Height*3 on uint16 operands
DataLen(w, h) == (w * h * Channels) % 65536

\* one nested image: width, height, make([]byte, ...), io.ReadFull
RNested ==
    /\ rpc = "nested"
    /\ ri < rheader.NestedCount
    /\ LET w == U16At(source, rpos)
           h == U16At(source, rpos + 2)
       IN  IF Left < 2
           THEN /\ rpc' = "error" /\ rerr' = "io" /\ rpos' = Len(source)
                /\ UNCHANGED <<rnested, ri>>
           ELSE IF Left < 4
           THEN /\ rpc' = "error" /\ rerr' = "io" /\ rpos' = Len(source)
                /\ rnested' = [rnested EXCEPT ![ri + 1].Width = w]
                /\ UNCHANGED ri
           ELSE IF Left - 4 < DataLen(w, h)
           THEN /\ rpc' = "error" /\ rerr' = "io" /\ rpos' = Len(source)
                /\ rnested' = [rnested EXCEPT ![ri + 1] =
                       [Width |-> w, Height |-> h,
                        Data |-> [k \in 1..DataLen(w, h) |->
                                    IF k <= Left - 4 THEN source[rpos + 4 + k] ELSE 0]]]
                /\ UNCHANGED ri
           ELSE /\ rnested' = [rnested EXCEPT ![ri + 1] =
                       [Width |-> w, Height |-> h,
                        Data |-> SubSeq(source, rpos + 5, rpos + 4 + DataLen(w, h))]]
                /\ rpos' = rpos + 4 + DataLen(w, h)
                /\ ri' = ri + 1
                /\ UNCHANGED <<rpc, rerr>>
    /\ UNCHANGED <<fuzz, rapi, source, rheader, rgrid, rx, ry>>
    /\ UNCHANGED wvars /\ UNCHANGED tvars

\* return mainImage, nestedImages, nil
RReturn ==
    /\ rpc = "nested"
    /\ ri >= rheader.NestedCount
    /\ rpc' = "done"
    /\ UNCHANGED <<fuzz, rapi, source, rpos, rheader, rgrid, rnested, rx, ry, ri, rerr>>
    /\ UNCHANGED wvars /\ UNCHANGED tvars

\* what the caller holds: ReadFile returns nil, nil on an error; Read fills
\* the NestedImageFile the caller passed, whatever it returns
CallerSees ==
    IF rapi = "Read"
    THEN [Header |-> rheader, MainImage |-> rgrid, NestedImages |-> rnested]
    ELSE IF rpc = "done"
    THEN [Header |-> ZeroHeader, MainImage |-> rgrid, NestedImages |-> rnested]
    ELSE [Header |-> ZeroHeader, MainImage |-> <<>>, NestedImages |-> <<>>]

Next ==
    \/ WStart \/ WTile \/ WRowEnd \/ WTilesEnd \/ WNested \/ WReturn
    \/ Open \/ RHeader \/ RTile \/ RRowEnd \/ RTilesEnd \/ RNested \/ RReturn

Spec == Init /\ [][Next]_vars

(* ------------------------------------- decoder on cut or altered streams *)
\* the streams are the prefixes of what the encoders write for the sample
\* images and at most one nested image, with and without the magic altered
StreamLists == {l \in NestedLists : Len(l) <= 1}

InitStream ==
    InitWith(SampleImages, StreamLists, {"WriteFile", "Write"}, {<<0, 0, 0>>}, TRUE)

SpecStream == InitStream /\ [][Next]_vars

(* ------------------------------------------- extractTile, then fillTile *)
InitTile ==
    /\ mainImage \in {g \in SampleImages : Len(g) > 0 /\ Len(g[1]) > 0}
    /\ targ \in {[x |-> a, y |-> b, size |-> s] :
                    a \in 0..(MaxW - 1), b \in 0..(MaxH - 1), s \in 1..(MaxTile + 1)}
    /\ targ.x < Len(mainImage[1]) /\ targ.y < Len(mainImage)
    /\ tpc = "start" /\ tile = <<>> /\ tout = <<>>
    /\ api = "none" /\ header = ZeroHeader /\ nestedImages = <<>> /\ file = <<>>
    /\ wpc = "off" /\ wx = 0 /\ wy = 0 /\ wi = 0 /\ werr = "none"
    /\ fuzz = FALSE
    /\ rapi = "none" /\ source = <<>> /\ rpos = 0 /\ rpc = "off"
    /\ rheader = ZeroHeader /\ rgrid = <<>> /\ rnested = <<>>
    /\ rx = 0 /\ ry = 0 /\ ri = 0 /\ rerr = "none"

\* tile := extractTile(mainImage, x, y, size)
TExtract ==
    /\ tpc = "start"
    /\ tile' = extractTile(mainImage, targ.x, targ.y, targ.size)
    /\ tpc' = "extracted"
    /\ UNCHANGED <<targ, tout>>
    /\ UNCHANGED wvars /\ UNCHANGED rvars

\* fillTile(zeroed grid of the same dimensions, tile, x, y, size)
TFill ==
    /\ tpc = "extracted"
    /\ LET zero == ZeroGrid(Len(mainImage[1]), Len(mainImage)) IN
       IF fillTilePanics(zero, tile, targ.x, targ.y, targ.size)
       THEN /\ tpc' = "panic" /\ UNCHANGED tout
       ELSE /\ tout' = fillTile(zero, tile, targ.x, targ.y, targ.size)
            /\ tpc' = "filled"
    /\ UNCHANGED <<targ, tile>>
    /\ UNCHANGED wvars /\ UNCHANGED rvars

NextTile == TExtract \/ TFill

SpecTile == InitTile /\ [][NextTile]_vars

(* ================================================================ claims *)
\* the clipped extent of the tile at (x, y): the records the encoder wrote for it
TileRecordsClipped(h, x, y) ==
    Min(h.TileSize, h.Width - x) * Min(h.TileSize, h.Height - y)

\* the payload length of the file layout: the product taken in the integers
DataLenExact(w, h) == w * h * Channels

NonEmptyImage == Len(mainImage) > 0 /\ Len(mainImage[1]) > 0

EncoderReturned == wpc \in {"done", "error", "panic"}

DecoderReturned == rpc \in {"done", "error"}

\* the container obeys the data model: a non-empty main image, every nested
\* payload of width*height*3 bytes, the header equal to the actual data, a
\* positive tile size
HeaderMatchesData ==
    /\ header.Width = ImageWidth(mainImage)
    /\ header.Height = ImageHeight(mainImage)
    /\ header.NestedCount = Len(nestedImages)

WellFormedContainer ==
    /\ NonEmptyImage
    /\ \A k \in 1..Len(nestedImages) :
          Len(nestedImages[k].Data)
            = nestedImages[k].Width * nestedImages[k].Height * Channels
    /\ HeaderMatchesData
    /\ header.TileSize > 0

Decoded ==
    /\ rpc = "done"
    /\ rheader = header
    /\ rgrid = mainImage
    /\ rnested = nestedImages

\* C1: decoding what the encoder wrote for a well-formed container with a
\* non-empty main image returns the container field for field, whether or not
\* tileSize divides width and height.
C1_RoundTrip ==
    (wpc = "done" /\ WellFormedContainer /\ DecoderReturned) => Decoded

\* The round trip where tileSize divides width and height: the case in which
\* the decoder's fixed-size tile reads agree with what the encoder wrote.
RoundTripDivisible ==
    (/\ wpc = "done" /\ WellFormedContainer /\ DecoderReturned
     /\ header.Width % header.TileSize = 0
     /\ header.Height % header.TileSize = 0) => Decoded

RoundTripDivisibleReached ==
    /\ wpc = "done" /\ WellFormedContainer /\ rpc = "done"
    /\ header.TileSize = 2 /\ header.Width = 2 /\ header.Height = 2
    /\ Len(nestedImages) = 2

\* C2: a tile read at origin (x, y) consumes min(tileSize, width - x) *
\* min(tileSize, height - y) Pixel-Link records, the number the encoder wrote
\* for that tile, and not tileSize*tileSize on a clipped edge tile.
C2_ClippedTileRead ==
    [][(/\ rpc = "tiles" /\ rpc' = "tiles"
        /\ ry < rheader.Height /\ rx < rheader.Width /\ rpos' # rpos)
       => rpos' - rpos = PixelSize * TileRecordsClipped(rheader, rx, ry)]_vars

\* the cells of the grid inside the clipped tile at targ
InTile(r, c) ==
    /\ targ.y < r /\ r <= targ.y + targ.size
    /\ targ.x < c /\ c <= targ.x + targ.size

\* C3: fillTile on a zeroed grid with extractTile's result puts every pixel of
\* the (clipped) tile back where it came from, writes no other cell and reads
\* no index past the end of the tile.
C3_FillInvertsExtract ==
    (tpc \in {"filled", "panic"}) =>
        /\ tpc = "filled"
        /\ \A r \in 1..Len(mainImage) : \A c \in 1..Len(mainImage[r]) :
              tout[r][c] = IF InTile(r, c) THEN mainImage[r][c] ELSE ZeroPixel

\* The inverse where the tile is not clipped in width or has one row only.
FillInvertsUnclipped ==
    (/\ tpc \in {"filled", "panic"}
     /\ \/ targ.x + targ.size <= Len(mainImage[1])
        \/ targ.y + 1 = Len(mainImage)
        \/ targ.size = 1) =>
        /\ tpc = "filled"
        /\ \A r \in 1..Len(mainImage) : \A c \in 1..Len(mainImage[r]) :
              tout[r][c] = IF InTile(r, c) THEN mainImage[r][c] ELSE ZeroPixel

\* position p = <<x, y>> comes before q in the wire order: by tile row, then
\* tile column, then row, then column
WireBefore(p, q, ts) ==
    LET kp == <<p[2] \div ts, p[1] \div ts, p[2], p[1]>>
        kq == <<q[2] \div ts, q[1] \div ts, q[2], q[1]>>
    IN  \E n \in 1..4 : kp[n] < kq[n] /\ \A m \in 1..(n - 1) : kp[m] = kq[m]

WireRank(q, w, h, ts) ==
    Cardinality({p \in (0..(w - 1)) \X (0..(h - 1)) : WireBefore(p, q, ts)})

\* C4: once the tile loops are done the file holds, right after the header,
\* exactly width*height Pixel-Link records: every pixel once, tiles in
\* row-major order of origin, pixels row-major inside a tile, edge tiles
\* clipped and unpadded; the first nested image follows at once.
C4_TileOrder ==
    (wpc \in {"nested", "done"} /\ NonEmptyImage /\ header.TileSize > 0) =>
        LET w == Len(mainImage[1])
            h == Len(mainImage)
            end == HeaderSize + PixelSize * w * h
        IN  /\ Len(file) >= end
            /\ (wpc = "nested" /\ wi = 0) => Len(file) = end
            /\ \A x \in 0..(w - 1), y \in 0..(h - 1) :
                  LET k == WireRank(<<x, y>>, w, h, header.TileSize)
                  IN  SubSeq(file, HeaderSize + PixelSize * k + 1,
                                   HeaderSize + PixelSize * (k + 1))
                        = EncodePixel(mainImage[y + 1][x + 1])
            /\ wi >= 1 => SubSeq(file, end + 1, end + 4)
                            = LE16(nestedImages[1].Width) \o LE16(nestedImages[1].Height)

C4_Reached ==
    /\ wpc = "done" /\ api = "Write" /\ header.TileSize = 2
    /\ Len(mainImage) = 2 /\ Len(mainImage[1]) = 3
    /\ Len(nestedImages) >= 1
    /\ Len(file) > HeaderSize + PixelSize * 6

\* C5: every nested image the decoder has read holds exactly width*height*3
\* payload bytes, the product taken in the integers.
C5_NestedPayloadSize ==
    (rpc \in {"nested", "done"}) =>
        \A k \in 1..ri :
            Len(rnested[k].Data) = DataLenExact(rnested[k].Width, rnested[k].Height)

\* the stream has four first bytes and they are not "NEST"
FirstFourNotNest == Len(source) >= 4 /\ SubSeq(source, 1, 4) # MAGIC

\* the stream does not start with the four bytes "NEST"
NotNest == Len(source) < 4 \/ FirstFourNotNest

HeaderRead == rpc \in {"tiles", "nested", "done", "error"}

\* C6 as stated: every stream that does not start with "NEST", whatever its
\* length, is refused with the format error, no grid having been allocated.
C6_MagicRejection ==
    (HeaderRead /\ FirstFourNotNest) =>
        (rpc = "error" /\ rerr = "format" /\ rgrid = <<>>)

\* C6 as amended: a stream that does not start with "NEST" is refused with no
\* grid allocated; the error is the format error when the stream holds the
\* 20 bytes of a header, and the I/O error of the header read when it does not.
C6_MagicRejectionFullHeader ==
    (HeaderRead /\ NotNest) =>
        /\ rpc = "error"
        /\ rgrid = <<>>
        /\ rerr = IF Len(source) >= HeaderSize THEN "format" ELSE "io"

C6_Reached ==
    /\ rpc = "error" /\ rerr = "format"
    /\ Len(source) > HeaderSize
    /\ SubSeq(source, 1, 3) = SubSeq(MAGIC, 1, 3)
    /\ NotNest

\* whether k nested images, each of 4 + width*height*3 bytes, fit in s from pos
RECURSIVE NestedFit(_, _, _)
NestedFit(s, pos, k) ==
    IF k = 0 THEN pos <= Len(s)
    ELSE /\ pos + 4 <= Len(s)
         /\ NestedFit(s, pos + 4 + DataLenExact(U16At(s, pos), U16At(s, pos + 2)), k - 1)

\* the stream ends before the header, the width*height records and the
\* NestedCount nested images of the file layout have all been given
Truncated(s) ==
    \/ Len(s) < HeaderSize
    \/ LET h == DecodeHeader(s, 0)
       IN  ~NestedFit(s, HeaderSize + PixelSize * h.Width * h.Height, h.NestedCount)

Nothing == [Header |-> ZeroHeader, MainImage |-> <<>>, NestedImages |-> <<>>]

\* C7: a decode of a stream that ends early returns the I/O error, and the
\* caller holds no header, grid or nested image from it.  (Streams whose magic
\* is wrong are C6's.)
C7_TruncatedRejected ==
    (DecoderReturned /\ Truncated(source) /\ ~FirstFourNotNest) =>
        (rpc = "error" /\ rerr = "io" /\ CallerSees = Nothing)

\* ReadFile on a stream that ends early, no nested image of which declares
\* 65536 payload bytes or more: the I/O error, and nil, nil returned.
ReadFileTruncatedRejected ==
    (/\ rapi = "ReadFile"
     /\ \A k \in 1..Len(nestedImages) :
           DataLenExact(nestedImages[k].Width, nestedImages[k].Height) < 65536)
        => C7_TruncatedRejected

\* C8: encoding an empty main image ends in the validation error with no byte
\* in the sink; it neither goes on to write nor panics.
C8_EmptyRejected ==
    (wpc \notin {"start", "off"} /\ ~NonEmptyImage) =>
        (wpc = "error" /\ werr = "validation" /\ file = <<>>)

\* The empty check of the second WriteFile (src/main.go 142-144).
WriteFileEmptyRejected == api = "WriteFile" => C8_EmptyRejected

\* C9: a header that disagrees with the data is refused with the validation
\* error before any byte is written, so the header of every completed file
\* gives the width, height and count of the data after it.
C9_HeaderConsistent ==
    /\ (api = "Write" /\ wpc \notin {"start", "off"} /\ ~HeaderMatchesData) =>
          (wpc = "error" /\ werr = "validation" /\ file = <<>>)
    /\ wpc = "done" =>
          LET h == DecodeHeader(file, 0)
          IN  /\ h.Width = ImageWidth(mainImage)
              /\ h.Height = ImageHeight(mainImage)
              /\ h.NestedCount = Len(nestedImages)

LinkOutOfRange ==
    \E r \in 1..Len(mainImage) : \E c \in 1..Len(mainImage[r]) :
        mainImage[r][c].NestedIdx > Len(nestedImages)

\* C10: an encode of a container with a nestedIndex greater than the number
\* of nested images does not return without flagging it.
C10_IndexFlagged ==
    (EncoderReturned /\ LinkOutOfRange) => werr # "none"

(* ---------------------------------------------------------- termination *)
\* the encoder and the decoder run on one goroutine, nothing else in between:
\* a step that can be taken is taken
SpecFair == Spec /\ WF_vars(Next)

EncoderRunning == wpc \in {"start", "tiles", "nested"}

DecoderRunning == rpc \in {"header", "tiles", "nested"}

\* the encoder's next step changes its state: the loop it is in moves on
EncodeProgress ==
    EncoderRunning =>
        ENABLED <<WStart \/ WTile \/ WRowEnd \/ WTilesEnd \/ WNested \/ WReturn>>_vars

\* the decoder's next step changes its state: the loop it is in moves on
DecodeProgress ==
    DecoderRunning =>
        ENABLED <<RHeader \/ RTile \/ RRowEnd \/ RTilesEnd \/ RNested \/ RReturn>>_vars

\* C11: encode and decode finish: as long as either has not returned, its
\* next step makes progress, whatever the tileSize (0 included), where width
\* and height are positive.
C11_Terminates ==
    /\ NonEmptyImage => EncodeProgress
    /\ (rheader.Width > 0 /\ rheader.Height > 0) => DecodeProgress

\* The decoder's half of it.
DecodeTerminates == (rheader.Width > 0 /\ rheader.Height > 0) => DecodeProgress

\* With a positive tileSize every step of either makes progress,
EncodeProgressPositiveTile == (api = "Write" => header.TileSize > 0) => EncodeProgress

DecodeProgressPositiveTile == rheader.TileSize > 0 => DecodeProgress

\* and encode and decode return.
EncodeReturnsPositiveTile ==
    <>(EncoderReturned \/ (api = "Write" /\ header.TileSize = 0))

DecodeReturnsPositiveTile ==
    (DecoderRunning /\ rpc # "header") ~> (DecoderReturned \/ rheader.TileSize = 0)

====
